---- MODULE Spec2Model ----
(***************************************************************************)
(* Solar-system visualizer: the camera-focus controller, the body          *)
(* renderers and the selection channel of the app variants.                *)
(*                                                                         *)
(* Numbers.  World coordinates are fixed-point integers, U units per world *)
(* unit.  Angles are integers in units of 1e-7 rad, so that a frame's      *)
(* delta (ms) * orbitSpeed (1/100) * K (1/100) is an exact integer.        *)
(* Spin rotations are integers in units of 1e-3 rad.                       *)
(***************************************************************************)
EXTENDS Integers, Sequences, FiniteSets, TLC

\* fixed-point units per world unit
U == 10 * 10

\* ------------------------------------------------------------------------
\* Integer helpers
\* ------------------------------------------------------------------------

Abs(n) == IF n < 0 THEN -n ELSE n

Max2(a, b) == IF a >= b THEN a ELSE b

Min2(a, b) == IF a <= b THEN a ELSE b

\* n / d rounded to the nearest integer (d > 0), as a float result is
\* rounded to the nearest representable value
RoundDiv(n, d) == (2 * n + d) \div (2 * d)

RECURSIVE SqrtIter(_, _)
SqrtIter(n, x) ==
    LET y == (x + n \div x) \div 2
    IN  IF y >= x THEN x ELSE SqrtIter(n, y)

\* floor of the square root (Math.sqrt)
ISqrt(n) == IF n <= 0 THEN 0 ELSE SqrtIter(n, Min2(n, 46340))

\* ------------------------------------------------------------------------
\* THREE.Vector3
\* ------------------------------------------------------------------------

Vec(x, y, z) == <<x, y, z>>

Zero3 == Vec(0, 0, 0)

VAdd(a, b) == Vec(a[1] + b[1], a[2] + b[2], a[3] + b[3])

VSub(a, b) == Vec(a[1] - b[1], a[2] - b[2], a[3] - b[3])

MaxAbs(v) == Max2(Abs(v[1]), Max2(Abs(v[2]), Abs(v[3])))

Sq(n) == n * n

SumSq(v) == Sq(v[1]) + Sq(v[2]) + Sq(v[3])

\* the length of v measured in units of s
LenIn(v, s) == s * ISqrt(Sq(v[1] \div s) + Sq(v[2] \div s) + Sq(v[3] \div s))

\* the unit that keeps the squares of m inside the integer range
LenUnit(m) == IF m <= 20000 THEN 1 ELSE IF m <= 160000 THEN 8 ELSE 64

\* Vector3.length()
VLen(v) == LenIn(v, LenUnit(MaxAbs(v)))

\* d.length() < r, exactly (r < 20000)
ShorterThan(d, r) == MaxAbs(d) < r /\ SumSq(d) < Sq(r)

\* d.length() > r, exactly (r < 20000)
LongerThan(d, r) == MaxAbs(d) > r \/ SumSq(d) > Sq(r)

\* a.distanceTo(b) < r
DistLess(a, b, r) == ShorterThan(VSub(a, b), r)

\* a.distanceTo(b) > r
DistMore(a, b, r) == LongerThan(VSub(a, b), r)

\* v * n / d, componentwise; the zero vector when d is 0, as normalize()
\* divides by (length || 1)
VScaleDiv(v, n, d) ==
    IF d = 0 THEN Zero3
    ELSE Vec(RoundDiv(v[1] * n, d), RoundDiv(v[2] * n, d), RoundDiv(v[3] * n, d))

\* v.normalize().multiplyScalar(len)
VSetLength(v, len) == VScaleDiv(v, len, VLen(v))

\* v.lerp(goal, pct / 100): v += (goal - v) * alpha, componentwise
VLerp(v, goal, pct) ==
    Vec(v[1] + RoundDiv((goal[1] - v[1]) * pct, 100),
        v[2] + RoundDiv((goal[2] - v[2]) * pct, 100),
        v[3] + RoundDiv((goal[3] - v[3]) * pct, 100))

\* ------------------------------------------------------------------------
\* Math.sin / Math.cos on angles in units of 1e-7 rad; results in 1e-4
\* ------------------------------------------------------------------------

\* 2 * pi and pi / 2 in units of 1e-7 rad
TwoPi == 62831853 + 0

HalfPi == 15707963 + 0

\* sin on [0, pi/2] by its Taylor series to x^9 in Horner form; x2 is x * x
SinT0(x2) == 10000 - x2 \div 72

SinT1(x2) == 10000 - ((x2 * SinT0(x2)) \div 10000) \div 42

SinT2(x2) == 10000 - ((x2 * SinT1(x2)) \div 10000) \div 20

SinT3(x2) == 10000 - ((x2 * SinT2(x2)) \div 10000) \div 6

\* x in units of 1e-4 rad
SinQ(x) == RoundDiv(x * SinT3((x * x) \div 10000), 10000)

\* quadrant q, offset f into the quadrant
SinQuadrant(q, f) ==
    (IF q >= 2 THEN -1 ELSE 1)
        * SinQ(RoundDiv(IF q % 2 = 0 THEN f ELSE HalfPi - f, 1000))

SinReduced(r) == SinQuadrant(r \div HalfPi, r % HalfPi)

Sin(a) == SinReduced(a % TwoPi)

Cos(a) == Sin(a + HalfPi)

\* (Math.sin(angle) * distance, 0, Math.cos(angle) * distance)
OrbitPosition(a, distance) ==
    Vec(RoundDiv(Sin(a) * distance, 10000), 0, RoundDiv(Cos(a) * distance, 10000))

\* ------------------------------------------------------------------------
\* Bounds of the model
\* ------------------------------------------------------------------------

\* frames rendered in one behaviour
MaxFrames == 330

\* user inputs (clicks, return requests, drags, unmounts) in one behaviour
MaxInputs == 2

\* the user acts once the first frame has placed the bodies, and then every
\* InputEvery frames
InputEvery == 160

\* frames that may be rendered while a scheduled render or effect waits
MaxLag == 1

\* frame deltas (ms) of the render loop, fixed per behaviour (display rate)
FrameDeltas == {16}

\* start angles (Math.random() * 2 * pi) given to the orbiting bodies
StartAngles == {0}

\* ------------------------------------------------------------------------
\* State
\* ------------------------------------------------------------------------

VARIABLES
    app,              \* which app variant is running
    focusedState,     \* useState cell written by setFocusedPlanet
    focusedPlanet,    \* the value the committed render closed over
    effectPending,    \* the [focusedPlanet] effect is scheduled, not yet run
    isTransitioning,  \* CameraController isTransitioning.current
    isResetting,      \* CameraController isResetting.current
    previousTarget,   \* CameraController previousTarget.current
    camera,           \* camera.position
    target,           \* controls.target
    angle,            \* per body: angle.current (1e-7 rad)
    position,         \* per body: ref.current.position
    spin,             \* per body: rotation.y of the spinning mesh (1e-3 rad)
    mounted,          \* per body: ref.current is set
    delta,            \* frame delta of this run (ms)
    frames,           \* frames rendered so far
    inputs,           \* user inputs so far
    branch,           \* branch the controller took in the latest frame
    released,         \* the latest frame called setFocusedPlanet(null)
    lastInput,        \* kind of the latest user input
    quiet,            \* frames rendered since the latest user input
    seen,             \* position the controller read in the latest frame
    lag,              \* frames rendered while React work has been pending
    lastPosition,     \* per body: position at the start of the latest frame
    arrived,          \* the selection whose fly-in has completed latest
    hasError,         \* state.hasError of an ErrorBoundary above the Canvas
    rendered,         \* what the page shows: "scene", "fallback" or "nothing"
    selectedPlanet,   \* part_000: the selectedPlanet state of App
    controls,         \* useThree().controls is set (OrbitControls makeDefault)
    cleanedUp,        \* part_000: the mount effect's cleanup has run
    timeScale,        \* first App.js variant: the timeScale state (tenths)
    elapsed           \* first App.js variant: clock.getElapsedTime() (ms)

vars == <<app, focusedState, focusedPlanet, effectPending, isTransitioning,
          isResetting, previousTarget, camera, target, angle, position, spin,
          mounted, delta, frames, inputs, branch, released, lastInput, quiet,
          seen, lag, lastPosition, arrived, hasError, rendered,
          selectedPlanet, controls, cleanedUp, timeScale, elapsed>>

\* the state of the page around the scene
pageVars == <<hasError, rendered, selectedPlanet, controls, cleanedUp, timeScale, elapsed>>

\* focusedPlanet === null
None == [name |-> "none", id |-> 0]

\* ------------------------------------------------------------------------
\* part_001: registry (the props given in App) and constants
\* ------------------------------------------------------------------------

\* bodies in mount order; the frame callbacks run in this order after the
\* CameraController's
P1Bodies == <<"Sun", "Mercury", "Venus", "Earth", "Moon", "Mars", "Jupiter",
              "Saturn", "Uranus", "Neptune">>

P1Names == {P1Bodies[i] : i \in 1..Len(P1Bodies)}

\* bodies whose mesh carries a click handler: Sun, Moon and every Planet
\* are given onPlanetClick
P1Selectable == P1Names

\* distance prop (fixed-point)
P1Distance(b) ==
    CASE b = "Sun" -> 0
      [] b = "Mercury" -> 1800
      [] b = "Venus" -> 2800
      [] b = "Earth" -> 3800
      [] b = "Moon" -> 360
      [] b = "Mars" -> 5200
      [] b = "Jupiter" -> 9500
      [] b = "Saturn" -> 13000
      [] b = "Uranus" -> 17000
      [] b = "Neptune" -> 20000

\* orbitSpeed prop (1/100)
P1OrbitSpeed(b) ==
    CASE b = "Sun" -> 0
      [] b = "Mercury" -> 130
      [] b = "Venus" -> 95
      [] b = "Earth" -> 80
      [] b = "Moon" -> 190
      [] b = "Mars" -> 70
      [] b = "Jupiter" -> 45
      [] b = "Saturn" -> 40
      [] b = "Uranus" -> 33
      [] b = "Neptune" -> 28

\* size prop (fixed-point)
P1Size(b) ==
    CASE b = "Sun" -> 800
      [] b = "Mercury" -> 80
      [] b = "Venus" -> 160
      [] b = "Earth" -> 170
      [] b = "Moon" -> 45
      [] b = "Mars" -> 120
      [] b = "Jupiter" -> 400
      [] b = "Saturn" -> 360
      [] b = "Uranus" -> 260
      [] b = "Neptune" -> 250

\* the factor of delta * orbitSpeed in the angle update (1/100):
\* 0.05 in Planet, 0.1 in Moon
P1PhaseScale(b) == IF b = "Moon" THEN 10 ELSE 5

\* rotation.y increment per frame (1e-3 rad): 0.002 for the Sun, else 0.005
P1SpinStep(b) == IF b = "Sun" THEN 2 ELSE 5

\* Canvas camera={{ position: [0, 150, 250] }}
P1CameraStart == Vec(0, 150 * U, 250 * U)

\* OrbitControls minDistance / maxDistance
P1MinDistance == 20

P1MaxDistance == 3000

\* lerp factors (percent) and thresholds of the CameraController
P1FlyInAlpha == 6

P1ResetAlpha == 5

P1SafeDist == 250

P1HomeFloor == 50

P1ReleaseMargin == 60

\* dist: the standoff of the focused body
P1Standoff(b) == IF b = "Sun" THEN P1Size(b) * 4 ELSE P1Size(b) * 5 + 15 * U

\* dist + 60: the auto-exit distance
P1ExitDist(b) == P1Standoff(b) + P1ReleaseMargin * U

\* desired: the body's position moved dist toward the sun, raised by 2 * size
P1Desired(b, targetPos) ==
    VAdd(VAdd(targetPos, VSetLength(VSub(Zero3, targetPos), P1Standoff(b))),
         Vec(0, P1Size(b) * 2, 0))

\* variant of P1FlyInDone with a tolerance of 2 instead of 0.5
P1FlyInDoneLoose(cam, desired) == DistLess(cam, desired, 2 * U)

\* camera.position.distanceTo(desired) < 0.5
P1FlyInDone(cam, desired) == DistLess(cam, desired, U \div 2)

\* an offset of length l brought into [lo, hi]
ClampLength(off, l, lo, hi) ==
    IF l < lo THEN VScaleDiv(off, lo, l)
    ELSE IF l > hi THEN VScaleDiv(off, hi, l)
    ELSE off

ClampOffset(off, lo, hi) == ClampLength(off, VLen(off), lo, hi)

\* OrbitControls.update() with no pending pointer input: the camera's
\* distance to controls.target is clamped to [minDistance, maxDistance]
ControlsUpdate(cam, tgt, minD, maxD) ==
    VAdd(tgt, ClampOffset(VSub(cam, tgt), minD * U, maxD * U))

\* ------------------------------------------------------------------------
\* part_001: operations
\* ------------------------------------------------------------------------

\* a state update waits for its render, or a committed render for its effect
ReactPending == focusedState # focusedPlanet \/ effectPending

\* the user may act now
InputOpen == inputs < MaxInputs /\ frames % InputEvery = 1

\* getWorldPosition of the focused body's ref: every ancestor group has the
\* identity transform, so it is the ref's own position (the Sun's mesh
\* stays at the origin)
P1WorldPosition(b) == position[b]

\* the home position of the reset branch: the camera's direction from the
\* origin at distance max(length, safeDist), then y raised to 50
P1RaiseHome(h) ==
    IF h[2] < P1HomeFloor * U THEN Vec(h[1], P1HomeFloor * U, h[3]) ELSE h

P1Home(cam) == P1RaiseHome(VSetLength(cam, Max2(VLen(cam), P1SafeDist * U)))

\* what one call of the CameraController's frame callback leaves
Outcome(cam, tgt, transitioning, resetting, prev, rel, pos, br) ==
    [camera |-> cam, target |-> tgt, isTransitioning |-> transitioning,
     isResetting |-> resetting, previousTarget |-> prev, released |-> rel,
     seen |-> pos, branch |-> br]

\* mutation of P1ResetMoved: the reset never ends
P1ResetMovedForever(cam, tgt) ==
    Outcome(ControlsUpdate(cam, tgt, P1MinDistance, P1MaxDistance), tgt,
            isTransitioning, TRUE, previousTarget, FALSE, seen, "reset")

\* if (isResetting.current && !focusedPlanet) { ... }
P1ResetMoved(cam, tgt) ==
    Outcome(ControlsUpdate(cam, tgt, P1MinDistance, P1MaxDistance), tgt,
            isTransitioning, ~DistLess(tgt, Zero3, U), previousTarget, FALSE,
            seen, "reset")

P1ResetBranch ==
    P1ResetMoved(VLerp(camera, P1Home(camera), P1ResetAlpha),
                 VLerp(target, Zero3, P1ResetAlpha))

\* mutation of P1AutoExit: the margin is counted twice
P1AutoExitWide(b, transitioning, cam, targetPos) ==
    ~transitioning
    /\ DistMore(cam, targetPos, P1ExitDist(b) + P1ReleaseMargin * U)

\* auto-exit if camera drifts too far
P1AutoExit(b, transitioning, cam, targetPos) ==
    ~transitioning /\ DistMore(cam, targetPos, P1ExitDist(b))

\* variant of P1FocusEnd that leaves out controls.update()
P1FocusEndNoUpdate(b, targetPos, cam, tgt, transitioning, prev, br) ==
    Outcome(cam, tgt, transitioning, isResetting, prev,
            P1AutoExit(b, transitioning, cam, targetPos), targetPos, br)

\* the end of the focus branch: the auto-exit check, then controls.update()
P1FocusEnd(b, targetPos, cam, tgt, transitioning, prev, br) ==
    Outcome(ControlsUpdate(cam, tgt, P1MinDistance, P1MaxDistance), tgt,
            transitioning, isResetting, prev,
            P1AutoExit(b, transitioning, cam, targetPos), targetPos, br)

\* if (isTransitioning.current) { ... }: ease toward the goals
P1FlyInMoved(b, targetPos, cam, tgt, done) ==
    P1FocusEnd(b, targetPos, cam, tgt, ~done,
               IF done THEN targetPos ELSE previousTarget, "flyin")

P1FlyInEased(b, targetPos, desired, cam, tgt) ==
    P1FlyInMoved(b, targetPos, cam, tgt, P1FlyInDone(cam, desired))

P1FlyIn(b, targetPos, desired) ==
    P1FlyInEased(b, targetPos, desired, VLerp(camera, desired, P1FlyInAlpha),
                 VLerp(target, targetPos, P1FlyInAlpha))

\* else { ... }: rigid follow
P1Track(b, targetPos) ==
    P1FocusEnd(b, targetPos, VAdd(camera, VSub(targetPos, previousTarget)),
               targetPos, FALSE, targetPos, "tracking")

\* if (focusedPlanet && focusedPlanet.ref && focusedPlanet.ref.current) { ... }
P1Focus(b, targetPos) ==
    IF isTransitioning THEN P1FlyIn(b, targetPos, P1Desired(b, targetPos))
    ELSE P1Track(b, targetPos)

P1FocusBranch == P1Focus(focusedPlanet.name, P1WorldPosition(focusedPlanet.name))

\* else { ... }: safe drift to origin
P1DriftMoved(cam, tgt) ==
    Outcome(ControlsUpdate(cam, tgt, P1MinDistance, P1MaxDistance), tgt,
            isTransitioning, isResetting, previousTarget, FALSE, seen, "drift")

P1DriftBranch ==
    P1DriftMoved(IF VLen(camera) < 80 * U
                 THEN VLerp(camera, VSetLength(camera, 120 * U), P1ResetAlpha)
                 ELSE camera,
                 VLerp(target, Zero3, P1ResetAlpha))

\* if (!controls || !camera) return;
NoControls ==
    Outcome(camera, target, isTransitioning, isResetting, previousTarget,
            FALSE, seen, "none")

\* the CameraController's useFrame callback
P1Controller ==
    IF ~controls THEN NoControls
    ELSE IF isResetting /\ focusedPlanet = None THEN P1ResetBranch
    ELSE IF focusedPlanet # None /\ mounted[focusedPlanet.name] THEN P1FocusBranch
    ELSE P1DriftBranch

\* Planet / Moon / Sun useFrame: the angle advances, the position is
\* recomputed from it, the mesh spins.  Moon advances its angle even when
\* its ref is not set.
P1AngleStep(b, a, dt) == a + dt * P1OrbitSpeed(b) * P1PhaseScale(b)

P1NextAngle(b) ==
    IF b = "Sun" THEN angle[b]
    ELSE IF mounted[b] \/ b = "Moon" THEN P1AngleStep(b, angle[b], delta)
    ELSE angle[b]

P1NextPosition(b) ==
    IF b # "Sun" /\ mounted[b] THEN OrbitPosition(P1NextAngle(b), P1Distance(b))
    ELSE position[b]

P1NextSpin(b) == IF mounted[b] THEN spin[b] + P1SpinStep(b) ELSE spin[b]

\* one rendered frame: the CameraController's callback, then the bodies'
\* callbacks in mount order
P1Frame ==
    /\ app = "part_001"
    /\ rendered = "scene"
    /\ frames < MaxFrames
    /\ controls \/ frames = 0
    /\ ReactPending => lag < MaxLag
    /\ lag' = IF ReactPending THEN lag + 1 ELSE 0
    /\ \E c \in {P1Controller} :
           /\ camera' = c.camera
           /\ target' = c.target
           /\ isTransitioning' = c.isTransitioning
           /\ isResetting' = c.isResetting
           /\ previousTarget' = c.previousTarget
           /\ released' = c.released
           /\ seen' = c.seen
           /\ branch' = c.branch
           /\ focusedState' = IF c.released THEN None ELSE focusedState
           /\ arrived' = IF c.branch = "flyin" /\ ~c.isTransitioning
                         THEN focusedPlanet ELSE arrived
    /\ lastPosition' = position
    /\ angle' = [b \in DOMAIN angle |-> P1NextAngle(b)]
    /\ position' = [b \in DOMAIN position |-> P1NextPosition(b)]
    /\ spin' = [b \in DOMAIN spin |-> P1NextSpin(b)]
    /\ frames' = frames + 1
    /\ quiet' = quiet + 1
    /\ UNCHANGED <<app, pageVars, focusedPlanet, effectPending, mounted, delta, inputs,
                   lastInput>>

\* handlePlanetClick, called by a body's handleClick
P1Click(b) ==
    /\ app = "part_001"
    /\ InputOpen
    /\ b \in P1Selectable
    /\ mounted[b]
    /\ focusedState' = IF focusedPlanet # None /\ focusedPlanet.name = b
                       THEN focusedState
                       ELSE [name |-> b, id |-> inputs + 1]
    /\ inputs' = inputs + 1
    /\ lastInput' = "click"
    /\ quiet' = 0
    /\ UNCHANGED <<app, pageVars, focusedPlanet, effectPending, isTransitioning,
                   isResetting, previousTarget, camera, target, angle,
                   position, spin, mounted, delta, frames, branch, released,
                   seen, lag, lastPosition, arrived>>

\* handleReturn dispatches 'reset-camera'; onReset runs synchronously
P1Return ==
    /\ app = "part_001"
    /\ InputOpen
    /\ isResetting' = TRUE
    /\ focusedState' = None
    /\ inputs' = inputs + 1
    /\ lastInput' = "return"
    /\ quiet' = 0
    /\ UNCHANGED <<app, pageVars, focusedPlanet, effectPending, isTransitioning,
                   previousTarget, camera, target, angle, position, spin,
                   mounted, delta, frames, branch, released, seen, lag,
                   lastPosition, arrived>>

\* React commits a render with the new state: the frame callback and the
\* handlers now close over it, and the [focusedPlanet] effect is scheduled.
\* Effects of the previous commit are flushed before a new render.
Render ==
    /\ focusedState # focusedPlanet
    /\ ~effectPending
    /\ focusedPlanet' = focusedState
    /\ effectPending' = TRUE
    /\ UNCHANGED <<app, pageVars, focusedState, isTransitioning, isResetting,
                   previousTarget, camera, target, angle, position, spin,
                   mounted, delta, frames, inputs, branch, released,
                   lastInput, quiet, seen, lag, lastPosition, arrived>>

\* useEffect(() => { if (focusedPlanet) { ... } }, [focusedPlanet])
Effect ==
    /\ effectPending
    /\ effectPending' = FALSE
    /\ isTransitioning' = IF focusedPlanet # None THEN TRUE ELSE isTransitioning
    /\ isResetting' = IF focusedPlanet # None THEN FALSE ELSE isResetting
    /\ lag' = IF focusedState # focusedPlanet THEN lag ELSE 0
    /\ UNCHANGED <<app, pageVars, focusedState, focusedPlanet, previousTarget, camera,
                   target, angle, position, spin, mounted, delta, frames,
                   inputs, branch, released, lastInput, quiet, seen,
                   lastPosition, arrived>>

\* the orbit control applies a pointer drag: the camera is put at the
\* chosen offset from controls.target
P1DragOffsets ==
    IF focusedPlanet # None /\ app = "part_001"
    THEN {Vec(-P1ExitDist(focusedPlanet.name), 0, 0),
          Vec(-(P1ExitDist(focusedPlanet.name) + U), 0, 0),
          Vec(0, P1Standoff(focusedPlanet.name), 0)}
    ELSE {Vec(0, 60 * U, 0)}

P1Drag(off) ==
    /\ app = "part_001"
    /\ InputOpen
    /\ camera' = ControlsUpdate(VAdd(target, off), target, P1MinDistance, P1MaxDistance)
    /\ inputs' = inputs + 1
    /\ lastInput' = "drag"
    /\ quiet' = 0
    /\ UNCHANGED <<app, pageVars, focusedState, focusedPlanet, effectPending,
                   isTransitioning, isResetting, previousTarget, target,
                   angle, position, spin, mounted, delta, frames, branch,
                   released, seen, lag, lastPosition, arrived>>

\* React detaches the focused body's group: ref.current becomes null and
\* its frame callback is unsubscribed
P1Unmount(b) ==
    /\ app = "part_001"
    /\ InputOpen
    /\ mounted[b]
    /\ focusedPlanet # None /\ focusedPlanet.name = b
    /\ mounted' = [mounted EXCEPT ![b] = FALSE]
    /\ inputs' = inputs + 1
    /\ lastInput' = "unmount"
    /\ quiet' = 0
    /\ UNCHANGED <<app, pageVars, focusedState, focusedPlanet, effectPending,
                   isTransitioning, isResetting, previousTarget, camera,
                   target, angle, position, spin, delta, frames, branch,
                   released, seen, lag, lastPosition, arrived>>

\* ------------------------------------------------------------------------
\* App.js, second variant: registry (the props given in App) and constants
\* ------------------------------------------------------------------------

\* planets in mount order
V2Bodies == <<"Mercury", "Venus", "Earth", "Mars", "Jupiter", "Saturn",
              "Uranus", "Neptune">>

V2Names == {V2Bodies[i] : i \in 1..Len(V2Bodies)}

\* bodies whose mesh carries a click handler: the Planets only; <Sun /> is
\* mounted without one
V2Selectable == V2Names

\* distance prop (fixed-point)
V2Distance(b) ==
    CASE b = "Mercury" -> 3000
      [] b = "Venus" -> 4500
      [] b = "Earth" -> 6500
      [] b = "Mars" -> 9000
      [] b = "Jupiter" -> 14000
      [] b = "Saturn" -> 19000
      [] b = "Uranus" -> 24000
      [] b = "Neptune" -> 29000

\* startAngle prop (1e-7 rad)
V2StartAngle(b) ==
    CASE b = "Mercury" -> 0
      [] b = "Venus" -> 10000000
      [] b = "Earth" -> 20000000
      [] b = "Mars" -> 35000000
      [] b = "Jupiter" -> 42000000
      [] b = "Saturn" -> 55000000
      [] b = "Uranus" -> 5000000
      [] b = "Neptune" -> 20000000

\* orbitSpeed prop (1/100)
V2OrbitSpeed(b) ==
    CASE b = "Mercury" -> 150
      [] b = "Venus" -> 110
      [] b = "Earth" -> 80
      [] b = "Mars" -> 60
      [] b = "Jupiter" -> 30
      [] b = "Saturn" -> 20
      [] b = "Uranus" -> 10
      [] b = "Neptune" -> 8

\* size prop (fixed-point)
V2Size(b) ==
    CASE b = "Mercury" -> 100
      [] b = "Venus" -> 180
      [] b = "Earth" -> 200
      [] b = "Mars" -> 140
      [] b = "Jupiter" -> 500
      [] b = "Saturn" -> 420
      [] b = "Uranus" -> 280
      [] b = "Neptune" -> 280

\* the factor of delta * orbitSpeed in the angle update (1/100): 0.05
V2PhaseScale == 5

\* rotation.y increment per frame (1e-3 rad): 0.005
V2SpinStep == 5

\* Canvas camera={{ position: [0, 150, 200] }}, also the reset goal
V2Home == Vec(0, 150 * U, 200 * U)

\* OrbitControls minDistance / maxDistance
V2MinDistance == 5

V2MaxDistance == 800

\* lerp factors (percent) and thresholds of the CameraController
V2FlyAlpha == 4

V2OverviewAlpha == 5

V2ReleaseMargin == 30

V2ResetEps == 2

\* zoomDistance = size * 6 + 12
V2ZoomDistance(b) == V2Size(b) * 6 + 12 * U

\* zoomDistance + 30: the auto-release distance
V2ExitDist(b) == V2ZoomDistance(b) + V2ReleaseMargin * U

\* goalPos: goalLookAt moved zoomDistance toward the sun, raised by 2 * size
V2GoalPos(b, goalLookAt) ==
    VAdd(VAdd(goalLookAt,
              VSetLength(VSub(Zero3, goalLookAt), V2ZoomDistance(b))),
         Vec(0, V2Size(b) * 2, 0))

\* bodies the modelled user clicks
P1Clickable == {"Sun", "Venus"}

P1Init ==
    /\ app = "part_001"
    /\ focusedState = None
    /\ focusedPlanet = None
    /\ effectPending = FALSE
    /\ isTransitioning = FALSE
    /\ isResetting = FALSE
    /\ previousTarget = Zero3
    /\ camera = P1CameraStart
    /\ target = Zero3
    /\ \E a \in StartAngles : angle = [b \in P1Names |-> IF b = "Sun" THEN 0 ELSE a]
    /\ position = [b \in P1Names |-> Zero3]
    /\ spin = [b \in P1Names |-> 0]
    /\ mounted = [b \in P1Names |-> TRUE]
    /\ delta \in FrameDeltas
    /\ frames = 0
    /\ inputs = 0
    /\ branch = "none"
    /\ released = FALSE
    /\ lastInput = "none"
    /\ quiet = 0
    /\ seen = Zero3
    /\ lag = 0
    /\ lastPosition = [b \in P1Names |-> Zero3]
    /\ arrived = None
    /\ hasError = FALSE
    /\ rendered = "scene"
    /\ selectedPlanet = None
    /\ controls = FALSE
    /\ cleanedUp = FALSE
    /\ timeScale = 10
    /\ elapsed = 0

P1Next ==
    \/ P1Frame
    \/ \E b \in P1Clickable : P1Click(b)
    \/ P1Return
    \/ \E off \in P1DragOffsets : P1Drag(off)
    \/ \E b \in P1Clickable : P1Unmount(b)

\* ------------------------------------------------------------------------
\* App.js, second variant: operations
\* ------------------------------------------------------------------------

\* const isPaused = focusedPlanet !== null, as the committed render saw it
isPaused == focusedPlanet # None

\* focusedPlanet.position is the orbit group's own position vector
V2LivePosition(b) == position[b]

\* if (!isTransitioning.current && currentDist > zoomDistance + 30)
V2AutoRelease(b, goalLookAt) ==
    ~isTransitioning /\ DistMore(camera, goalLookAt, V2ExitDist(b))

\* if (isTransitioning.current && focusedPlanet) { ... }
V2FlyInMoved(goalLookAt, goalPos, cam, tgt) ==
    Outcome(ControlsUpdate(cam, tgt, V2MinDistance, V2MaxDistance), tgt,
            ~(DistLess(cam, goalPos, U \div 2)
              /\ DistLess(tgt, goalLookAt, U \div 2)),
            isResetting, previousTarget, FALSE, goalLookAt, "flyin")

V2FlyIn(goalLookAt, goalPos) ==
    V2FlyInMoved(goalLookAt, goalPos, VLerp(camera, goalPos, V2FlyAlpha),
                 VLerp(target, goalLookAt, V2FlyAlpha))

\* else if (focusedPlanet && !isTransitioning.current) { ... }
V2Track(b, goalLookAt) ==
    Outcome(ControlsUpdate(camera, goalLookAt, V2MinDistance, V2MaxDistance),
            goalLookAt, isTransitioning, isResetting, previousTarget,
            V2AutoRelease(b, goalLookAt), goalLookAt, "tracking")

V2Focus(b, goalLookAt) ==
    IF isTransitioning THEN V2FlyIn(goalLookAt, V2GoalPos(b, goalLookAt))
    ELSE V2Track(b, goalLookAt)

\* else if (isResetting.current && !focusedPlanet) { ... }
V2ResetMoved(cam, tgt) ==
    Outcome(ControlsUpdate(cam, tgt, V2MinDistance, V2MaxDistance), tgt,
            isTransitioning, ~DistLess(cam, V2Home, V2ResetEps * U),
            previousTarget, FALSE, seen, "reset")

V2ResetBranch ==
    V2ResetMoved(VLerp(camera, V2Home, V2FlyAlpha),
                 VLerp(target, Zero3, V2FlyAlpha))

\* else if (!focusedPlanet) { ... }
V2OverviewMoved(tgt) ==
    Outcome(ControlsUpdate(camera, tgt, V2MinDistance, V2MaxDistance), tgt,
            isTransitioning, isResetting, previousTarget, FALSE, seen,
            "drift")

V2OverviewBranch == V2OverviewMoved(VLerp(target, Zero3, V2OverviewAlpha))

\* the CameraController's useFrame callback
V2Controller ==
    IF ~controls THEN NoControls
    ELSE IF focusedPlanet # None
    THEN V2Focus(focusedPlanet.name, V2LivePosition(focusedPlanet.name))
    ELSE IF isResetting THEN V2ResetBranch
    ELSE V2OverviewBranch

\* Planet useFrame: unless paused the angle advances and the position is
\* recomputed from it; the mesh spins in every frame
V2AngleStep(b, a, dt) == a + dt * V2OrbitSpeed(b) * V2PhaseScale

\* mutation of V2NextAngle: the pause flag is ignored
V2NextAngleUnpaused(b) ==
    IF mounted[b] THEN V2AngleStep(b, angle[b], delta) ELSE angle[b]

V2NextAngle(b) ==
    IF mounted[b] /\ ~isPaused THEN V2AngleStep(b, angle[b], delta)
    ELSE angle[b]

V2NextPosition(b) ==
    IF mounted[b] /\ ~isPaused
    THEN OrbitPosition(V2NextAngle(b), V2Distance(b))
    ELSE position[b]

V2NextSpin(b) == IF mounted[b] THEN spin[b] + V2SpinStep ELSE spin[b]

\* one rendered frame: the CameraController's callback and the planets'
V2Frame ==
    /\ app = "App.js"
    /\ rendered = "scene"
    /\ frames < MaxFrames
    /\ controls \/ frames = 0
    /\ ReactPending => lag < MaxLag
    /\ lag' = IF ReactPending THEN lag + 1 ELSE 0
    /\ \E c \in {V2Controller} :
           /\ camera' = c.camera
           /\ target' = c.target
           /\ isTransitioning' = c.isTransitioning
           /\ isResetting' = c.isResetting
           /\ previousTarget' = c.previousTarget
           /\ released' = c.released
           /\ seen' = c.seen
           /\ branch' = c.branch
           /\ focusedState' = IF c.released THEN None ELSE focusedState
           /\ arrived' = IF c.branch = "flyin" /\ ~c.isTransitioning
                         THEN focusedPlanet ELSE arrived
    /\ lastPosition' = position
    /\ angle' = [b \in DOMAIN angle |-> V2NextAngle(b)]
    /\ position' = [b \in DOMAIN position |-> V2NextPosition(b)]
    /\ spin' = [b \in DOMAIN spin |-> V2NextSpin(b)]
    /\ frames' = frames + 1
    /\ quiet' = quiet + 1
    /\ UNCHANGED <<app, pageVars, focusedPlanet, effectPending, mounted, delta, inputs,
                   lastInput>>

\* onPlanetClick={setFocusedPlanet}: every click stores a new object
V2Click(b) ==
    /\ app = "App.js"
    /\ InputOpen
    /\ b \in V2Selectable
    /\ mounted[b]
    /\ focusedState' = [name |-> b, id |-> inputs + 1]
    /\ inputs' = inputs + 1
    /\ lastInput' = "click"
    /\ quiet' = 0
    /\ UNCHANGED <<app, pageVars, focusedPlanet, effectPending, isTransitioning,
                   isResetting, previousTarget, camera, target, angle,
                   position, spin, mounted, delta, frames, branch, released,
                   seen, lag, lastPosition, arrived>>

\* handleReturn: setFocusedPlanet(null), then 'reset-camera' runs handleReset
V2Return ==
    /\ app = "App.js"
    /\ InputOpen
    /\ focusedState' = None
    /\ isResetting' = TRUE
    /\ inputs' = inputs + 1
    /\ lastInput' = "return"
    /\ quiet' = 0
    /\ UNCHANGED <<app, pageVars, focusedPlanet, effectPending, isTransitioning,
                   previousTarget, camera, target, angle, position, spin,
                   mounted, delta, frames, branch, released, seen, lag,
                   lastPosition, arrived>>

\* the orbit control applies a pointer drag
V2DragOffsets ==
    IF focusedPlanet # None /\ app = "App.js"
    THEN {Vec(-V2ExitDist(focusedPlanet.name), 0, 0),
          Vec(-(V2ExitDist(focusedPlanet.name) + U), 0, 0),
          Vec(0, V2ZoomDistance(focusedPlanet.name), 0)}
    ELSE {Vec(0, 60 * U, 0)}

V2Drag(off) ==
    /\ app = "App.js"
    /\ InputOpen
    /\ camera' = ControlsUpdate(VAdd(target, off), target, V2MinDistance,
                                V2MaxDistance)
    /\ inputs' = inputs + 1
    /\ lastInput' = "drag"
    /\ quiet' = 0
    /\ UNCHANGED <<app, pageVars, focusedState, focusedPlanet, effectPending,
                   isTransitioning, isResetting, previousTarget, target,
                   angle, position, spin, mounted, delta, frames, branch,
                   released, seen, lag, lastPosition, arrived>>

\* planets the modelled user clicks
V2Clickable == {"Mercury", "Jupiter"}

V2Init ==
    /\ app = "App.js"
    /\ focusedState = None
    /\ focusedPlanet = None
    /\ effectPending = FALSE
    /\ isTransitioning = FALSE
    /\ isResetting = FALSE
    /\ previousTarget = Zero3
    /\ camera = V2Home
    /\ target = Zero3
    /\ angle = [b \in V2Names |-> V2StartAngle(b)]
    /\ position = [b \in V2Names |-> Zero3]
    /\ spin = [b \in V2Names |-> 0]
    /\ mounted = [b \in V2Names |-> TRUE]
    /\ delta \in FrameDeltas
    /\ frames = 0
    /\ inputs = 0
    /\ branch = "none"
    /\ released = FALSE
    /\ lastInput = "none"
    /\ quiet = 0
    /\ seen = Zero3
    /\ lag = 0
    /\ lastPosition = [b \in V2Names |-> Zero3]
    /\ arrived = None
    /\ hasError = FALSE
    /\ rendered = "scene"
    /\ selectedPlanet = None
    /\ controls = FALSE
    /\ cleanedUp = FALSE
    /\ timeScale = 10
    /\ elapsed = 0

V2Next ==
    \/ V2Frame
    \/ \E b \in V2Clickable : V2Click(b)
    \/ V2Return
    \/ \E off \in V2DragOffsets : V2Drag(off)

\* ------------------------------------------------------------------------
\* part_000: plain three.js scene built in App's mount effect
\* ------------------------------------------------------------------------

\* the planets created by createPlanet, in creation order
P0Bodies == <<"Mercury", "Venus", "Earth", "Mars", "Jupiter", "Saturn",
              "Uranus", "Neptune">>

P0Names == {P0Bodies[i] : i \in 1..Len(P0Bodies)}

\* everything animate() spins about its own axis
P0Spinning == P0Names \cup {"Sun", "Clouds"}

\* speed argument of createPlanet: the step of group.rotation.y per frame
\* (1e-7 rad)
P0Speed(b) ==
    CASE b = "Mercury" -> 400000
      [] b = "Venus" -> 300000
      [] b = "Earth" -> 250000
      [] b = "Mars" -> 200000
      [] b = "Jupiter" -> 150000
      [] b = "Saturn" -> 100000
      [] b = "Uranus" -> 80000
      [] b = "Neptune" -> 70000

\* step of rotation.y per frame (1e-3 rad): 0.004 for a planet's mesh, 0.002
\* for the clouds and the sun
P0SpinStep(b) == IF b \in P0Names THEN 4 ELSE 2

\* camera.position.set(0, 20, 80)
P0CameraStart == Vec(0, 20 * U, 80 * U)

\* one call of animate(): every orbit group and every mesh turns by its
\* step; OrbitControls (no damping, no input) leaves the camera alone
P0Animate ==
    /\ app = "part_000"
    /\ frames < MaxFrames
    /\ angle' = [b \in DOMAIN angle |-> angle[b] + P0Speed(b)]
    /\ spin' = [b \in DOMAIN spin |-> spin[b] + P0SpinStep(b)]
    /\ frames' = frames + 1
    /\ quiet' = quiet + 1
    /\ UNCHANGED <<app, pageVars, focusedState, focusedPlanet, effectPending,
                   isTransitioning, isResetting, previousTarget, camera,
                   target, position, mounted, delta, inputs, branch,
                   released, lastInput, seen, lag, lastPosition, arrived>>

\* the user taps planet b on the canvas: no click, pointer or raycast
\* handler is registered and setSelectedPlanet is never called, so only the
\* input is recorded
P0Tap(b) ==
    /\ app = "part_000"
    /\ InputOpen
    /\ b \in P0Names
    /\ inputs' = inputs + 1
    /\ lastInput' = "tap"
    /\ quiet' = 0
    /\ UNCHANGED <<app, pageVars, focusedState, focusedPlanet, effectPending,
                   isTransitioning, isResetting, previousTarget, camera,
                   target, angle, position, spin, mounted, delta, frames,
                   branch, released, seen, lag, lastPosition, arrived>>

\* the state when the mount effect has run: the scene is built and
\* animate() has been called once (line 115)
P0Init ==
    /\ app = "part_000"
    /\ focusedState = None
    /\ focusedPlanet = None
    /\ effectPending = FALSE
    /\ isTransitioning = FALSE
    /\ isResetting = FALSE
    /\ previousTarget = Zero3
    /\ camera = P0CameraStart
    /\ target = Zero3
    /\ angle = [b \in P0Names |-> P0Speed(b)]
    /\ position = [b \in P0Names |-> Zero3]
    /\ spin = [b \in P0Spinning |-> P0SpinStep(b)]
    /\ mounted = [b \in P0Names |-> TRUE]
    /\ delta \in FrameDeltas
    /\ frames = 1
    /\ inputs = 0
    /\ branch = "none"
    /\ released = FALSE
    /\ lastInput = "none"
    /\ quiet = 0
    /\ seen = Zero3
    /\ lag = 0
    /\ lastPosition = [b \in P0Names |-> Zero3]
    /\ arrived = None
    /\ hasError = FALSE
    /\ rendered = "scene"
    /\ selectedPlanet = None
    /\ controls = TRUE
    /\ cleanedUp = FALSE
    /\ timeScale = 10
    /\ elapsed = 0

\* the component unmounts and the cleanup of the mount effect runs: it
\* removes the canvas element and the resize listener; the frame request
\* made by animate() is not cancelled, so P0Animate stays enabled
P0Cleanup ==
    /\ app = "part_000"
    /\ InputOpen
    /\ ~cleanedUp
    /\ cleanedUp' = TRUE
    /\ inputs' = inputs + 1
    /\ lastInput' = "unmount"
    /\ quiet' = 0
    /\ UNCHANGED <<app, hasError, rendered, selectedPlanet, controls,
                   timeScale, elapsed, focusedState, focusedPlanet,
                   effectPending, isTransitioning, isResetting,
                   previousTarget, camera, target, angle, position, spin,
                   mounted, delta, frames, branch, released, seen, lag,
                   lastPosition, arrived>>

P0Next ==
    \/ P0Animate
    \/ \E b \in P0Names : P0Tap(b)
    \/ P0Cleanup

\* the bottom card of part_000: the planet's details when one is selected,
\* the placeholder otherwise
BottomCard == IF selectedPlanet # None THEN "details" ELSE "placeholder"

\* the effect of <OrbitControls makeDefault /> stores the controls in the
\* fiber state, from where the CameraController reads them; at most the
\* first frame is rendered before
ControlsReady ==
    /\ app \in {"part_001", "App.js"}
    /\ ~controls
    /\ controls' = TRUE
    /\ UNCHANGED <<app, hasError, rendered, selectedPlanet, cleanedUp,
                   timeScale, elapsed, focusedState, focusedPlanet,
                   effectPending, isTransitioning, isResetting,
                   previousTarget, camera, target, angle, position, spin,
                   mounted, delta, frames, inputs, branch, released,
                   lastInput, quiet, seen, lag, lastPosition, arrived>>

\* useTexture throws while the textures are loading (before the first frame
\* of the scene): neither variant has an error boundary above the Canvas, so
\* React unmounts the whole tree and no hasError state exists to be set
TextureFail ==
    /\ app \in {"part_001", "App.js"}
    /\ frames = 0
    /\ rendered = "scene"
    /\ rendered' = "nothing"
    /\ UNCHANGED <<app, hasError, selectedPlanet, controls, cleanedUp, timeScale,
                   elapsed, focusedState, focusedPlanet,
                   effectPending, isTransitioning, isResetting,
                   previousTarget, camera, target, angle, position, spin,
                   mounted, delta, frames, inputs, branch, released,
                   lastInput, quiet, seen, lag, lastPosition, arrived>>

Init == P1Init \/ V2Init \/ P0Init

Next ==
    P1Next \/ V2Next \/ P0Next \/ Render \/ Effect \/ TextureFail
        \/ ControlsReady

\* all variants
Spec == Init /\ [][Next]_vars

\* ------------------------------------------------------------------------
\* Claims
\* ------------------------------------------------------------------------

\* a frame of the React scene is rendered in this step: the useFrame
\* callbacks run
FrameStep == app # "part_000" /\ frames' = frames + 1

\* the frame callback sees a selection whose live-position handle is set
HandleSet == focusedPlanet # None /\ mounted[focusedPlanet.name]

\* C1: every frame that observes a selection whose effect has not run yet
\* (the first frames that see a newly selected body) takes the fly-in
\* branch, never the tracking branch.
C1_FirstFrameFliesIn ==
    [][(FrameStep /\ HandleSet /\ effectPending) => branch' = "flyin"]_vars

\* the selected body, as the frame callback sees it
Selected == focusedPlanet.name

\* TRACKING: a selection is set and no fly-in is in progress
Tracking == HandleSet /\ ~isTransitioning

\* standoff + releaseMargin of the running variant
ExitDist(b) == IF app = "part_001" THEN P1ExitDist(b) ELSE V2ExitDist(b)

\* orbitSpeed of the running variant
OrbitSpeed(b) == IF app = "part_001" THEN P1OrbitSpeed(b) ELSE V2OrbitSpeed(b)

\* frames after which a fly-in is taken to have failed
FlyInFrames == 150

\* C2: in part_001, once a body is selected and no further input occurs,
\* the fly-in has completed (isTransitioning is false) after FlyInFrames
\* frames.
C2_FlyInCompletes ==
    (app = "part_001" /\ lastInput = "click" /\ HandleSet
     /\ focusedState = focusedPlanet /\ quiet >= FlyInFrames)
        => ~isTransitioning

\* C3: in every TRACKING frame of a selection the user has not dragged
\* since, the camera moves by exactly the vector the selected body moved
\* since the previous frame, the look-at target becomes the body's position,
\* and the camera-minus-target offset is the same after the frame as before.
C3_RigidFollow ==
    [][(FrameStep /\ Tracking /\ ~effectPending /\ lastInput # "drag")
       => /\ camera' = VAdd(camera, VSub(position[Selected],
                                         lastPosition[Selected]))
          /\ target' = position[Selected]
          /\ VSub(camera', target') = VSub(camera, target)]_vars

FollowedCamera ==
    IF app = "part_001"
    THEN VAdd(camera, VSub(position[Selected], previousTarget))
    ELSE camera

C5_NoReleaseBeforeTracking ==
    [][(FrameStep /\ released') => arrived' = focusedPlanet]_vars

\* frames after which a return is taken to have failed
ReturnFrames == 160

\* C6: a return request leaves the selection empty, and ReturnFrames frames
\* later, with no further input, the controller is in OVERVIEW: nothing
\* selected, isResetting false, the look-at target within 0.5 of the origin.
C6_ReturnReachesOverview ==
    lastInput = "return" =>
        /\ focusedState = None
        /\ quiet >= ReturnFrames =>
               /\ focusedPlanet = None
               /\ ~isResetting
               /\ DistLess(target, Zero3, U \div 2)

\* a return requested after a body had been reached has settled
C6_Returned ==
    /\ lastInput = "return"
    /\ quiet >= ReturnFrames
    /\ arrived # None
    /\ branch = "drift"

\* OVERVIEW: nothing selected, no flight flag set
Overview ==
    /\ focusedState = None
    /\ focusedPlanet = None
    /\ ~effectPending
    /\ ~isTransitioning
    /\ ~isResetting

\* C7: a return request in OVERVIEW changes neither the selection nor a
\* flight flag.
C7_ReturnInOverviewNoOp ==
    [][(Overview /\ inputs' = inputs + 1 /\ lastInput' = "return")
       => UNCHANGED <<focusedState, isTransitioning, isResetting>>]_vars

\* C8: a frame that finds the selected body's handle unset clears the
\* selection and sets isResetting.
C8_LostHandleIsReturn ==
    [][(FrameStep /\ focusedPlanet # None /\ ~mounted[Selected])
       => (focusedState' = None /\ isResetting')]_vars

\* C9: a frame rendered while isPaused leaves every planet's angle and
\* position unchanged and adds the spin increment to every planet's spin.
C9_PauseFreezesOrbit ==
    [][(FrameStep /\ app = "App.js" /\ isPaused)
       => /\ angle' = angle
          /\ position' = position
          /\ \A b \in V2Names : spin'[b] = spin[b] + V2SpinStep]_vars

\* frames have been rendered while a planet was focused
C9_PausedFrames ==
    /\ app = "App.js"
    /\ isPaused
    /\ branch = "flyin"
    /\ quiet >= 3

\* the scale constant K (1/100)
K == 5

\* C10: in every unpaused frame every orbiting body's angle grows by
\* delta * orbitSpeed * K, with the same K for planets and moons.
C10_UniformPhaseStep ==
    [][(FrameStep /\ ~(app = "App.js" /\ isPaused))
       => \A b \in DOMAIN angle :
              (b # "Sun" /\ mounted[b])
                  => angle'[b] = angle[b] + delta * OrbitSpeed(b) * K]_vars

\* the fixed home position of the running variant: the Canvas camera position
HomePosition == IF app = "part_001" THEN P1CameraStart ELSE V2Home

\* C11: every frame rendered in OVERVIEW with the camera away from the home
\* position moves the camera (eases it toward home).
C11_OverviewEasesHome ==
    [][(FrameStep /\ Overview /\ camera # HomePosition)
       => camera' # camera]_vars

\* the render for a click on body B has been committed after another body
\* had been reached, or during a reset
Reselected ==
    /\ lastInput = "click"
    /\ focusedPlanet # None
    /\ focusedPlanet = focusedState
    /\ arrived # focusedPlanet
    /\ \/ arrived # None /\ arrived.name # focusedPlanet.name
       \/ isResetting

\* C12: once another body B has been selected while A was tracked or
\* during FLYING_OUT, every frame flies in toward B until B is reached: it
\* takes the fly-in branch, reads B's position and leaves isResetting
\* false.
C12_ReselectRedefinesGoal ==
    [][(FrameStep /\ Reselected)
       => /\ branch' = "flyin"
          /\ seen' = position[Selected]
          /\ ~isResetting']_vars

\* the bodies a click can select in the running variant
Selectable ==
    IF app = "part_001" THEN P1Selectable
    ELSE IF app = "App.js" THEN V2Selectable
    ELSE {}

\* C13: in every controller state of the variants with a camera controller
\* the Sun is among the bodies a click can select.
C13_SunSelectable == app # "part_000" => "Sun" \in Selectable

\* the planet a moon belongs to: <Moon /> is mounted next to Earth
Parent(b) == IF b = "Moon" THEN "Earth" ELSE "Sun"

\* the moon's offset from its parent: (sin(phase) * d, 0, cos(phase) * d)
MoonOffset(a) == OrbitPosition(a, P1Distance("Moon"))

\* C14: after every frame of part_001 the Moon stands at its parent planet's
\* live position plus its own orbit offset.
C14_MoonAroundParent ==
    [][(FrameStep /\ app = "part_001" /\ mounted["Moon"] /\ mounted["Earth"])
       => position'["Moon"] = VAdd(position'[Parent("Moon")],
                                   MoonOffset(angle'["Moon"]))]_vars

\* C15: whenever the scene stops being shown because a texture failed, an
\* error boundary has set hasError and the fallback notice is shown, and the
\* notice stays.
C15_BoundaryCatchesTextureError ==
    [][/\ (rendered = "scene" /\ rendered' # "scene")
          => (hasError' /\ rendered' = "fallback")
       /\ rendered = "fallback" => rendered' = "fallback"]_vars

\* the user has tapped a planet of part_000
TapStep == app = "part_000" /\ lastInput' = "tap" /\ inputs' = inputs + 1

\* C16: in part_000 a tap on a planet sets selectedPlanet, so that the
\* bottom card shows the planet's details instead of the placeholder.
C16_TapSelectsPlanet ==
    [][TapStep => (selectedPlanet' # None /\ BottomCard' = "details")]_vars

\* the arrival tolerance of the fly-in: 0.5
Epsilon == U \div 2

\* the fly-in completes in this frame: the controller enters TRACKING
EntersTracking == FrameStep /\ isTransitioning /\ ~isTransitioning'

\* C17: whenever a frame enters TRACKING, the look-at target is within 0.5
\* of the position the controller read from the body in that frame.
C17_TrackingOnlyWhenTargetNear ==
    [][EntersTracking => DistLess(target', seen', Epsilon)]_vars

\* C18: in every frame in which the controller reads the selected body's
\* position, it reads the position that body has after its own orbit update
\* of the same frame.
C18_ReadsAfterOrbitUpdate ==
    [][(FrameStep /\ HandleSet /\ ~effectPending)
       => seen' = position'[Selected]]_vars

\* the standoff distance of body b in the running variant
Standoff(b) == IF app = "part_001" THEN P1Standoff(b) ELSE V2ZoomDistance(b)

\* the camera goal for body b standing at p: the standoff toward the sun,
\* raised by twice the body's size
Goal(b, p) == IF app = "part_001" THEN P1Desired(b, p) ELSE V2GoalPos(b, p)

\* C19 (as stated): in the frame that enters TRACKING the camera's distance
\* to the body's position is the standoff distance, within 0.5.
C19_StandoffOnArrival ==
    [][EntersTracking
       => /\ DistLess(camera', seen', Standoff(Selected) + Epsilon)
          /\ DistMore(camera', seen', Standoff(Selected) - Epsilon)]_vars

\* C19 (amended): in the frame that enters TRACKING the camera is within 0.5
\* of the goal position, which lies the standoff distance toward the sun and
\* twice the body's size above the body.
C19_GoalOnArrival ==
    [][EntersTracking => DistLess(camera', Goal(Selected, seen'), Epsilon)]_vars

\* a fly-in has just completed with the camera farther from the body than
\* the standoff distance plus 0.5
C19_ArrivedAboveStandoff ==
    /\ HandleSet
    /\ arrived = focusedPlanet
    /\ branch = "flyin"
    /\ ~isTransitioning
    /\ DistMore(camera, seen, Standoff(Selected) + Epsilon)

\* the visual radius of body b in the running variant: its size prop
Size(b) == IF app = "part_001" THEN P1Size(b) ELSE V2Size(b)

\* C20: over the selectable bodies the standoff distance never decreases as
\* the radius grows, and every standoff exceeds the body's radius.
C20_StandoffMonotone ==
    \A a \in Selectable :
        /\ Standoff(a) > Size(a)
        /\ \A b \in Selectable :
               Size(a) <= Size(b) => Standoff(a) <= Standoff(b)

\* ------------------------------------------------------------------------
\* part_001: the reset branch from any camera position
\* ------------------------------------------------------------------------

\* coordinates of the sampled camera positions
HomeGrid == {-200, -40, 0, 40, 200}

\* frames rendered after the return request
HomeFrames == 3

\* camera positions the orbit control can reach around the origin: any
\* direction, above and below the orbital plane, at a distance within
\* [minDistance, maxDistance]
HomeCameras ==
    {c \in {Vec(x * U, y * U, z * U) : x \in HomeGrid, y \in HomeGrid,
                                       z \in {0, 100}} :
        /\ ~ShorterThan(c, P1MinDistance * U)
        /\ VLen(c) <= P1MaxDistance * U}

\* part_001 in overview with the camera orbited to any of the sampled
\* positions, when the 'reset-camera' event has just set isResetting
HomeInit ==
    /\ app = "part_001"
    /\ focusedState = None
    /\ focusedPlanet = None
    /\ effectPending = FALSE
    /\ isTransitioning = FALSE
    /\ isResetting = TRUE
    /\ previousTarget = Zero3
    /\ camera \in HomeCameras
    /\ target = Zero3
    /\ angle = [b \in P1Names |-> 0]
    /\ position = [b \in P1Names |-> OrbitPosition(0, P1Distance(b))]
    /\ spin = [b \in P1Names |-> 0]
    /\ mounted = [b \in P1Names |-> TRUE]
    /\ delta \in FrameDeltas
    /\ frames = 0
    /\ inputs = 0
    /\ branch = "none"
    /\ released = FALSE
    /\ lastInput = "return"
    /\ quiet = 0
    /\ seen = Zero3
    /\ lag = 0
    /\ lastPosition = [b \in P1Names |-> OrbitPosition(0, P1Distance(b))]
    /\ arrived = None
    /\ hasError = FALSE
    /\ rendered = "scene"
    /\ selectedPlanet = None
    /\ controls = TRUE
    /\ cleanedUp = FALSE
    /\ timeScale = 10
    /\ elapsed = 0

HomeNext == frames < HomeFrames /\ P1Frame

SpecHome == HomeInit /\ [][HomeNext]_vars

\* h lies along the direction of cam from the origin (up to one unit of
\* rounding)
AlongDirection(h, cam) == DistLess(h, VSetLength(cam, VLen(h)), U)

\* C21: in every frame of the reset branch of part_001 the home goal lies
\* along the camera's direction from the origin, at least 250 from the
\* origin and at least 50 high.
C21_HomeGoalSafe ==
    [][(FrameStep /\ branch' = "reset")
       => /\ AlongDirection(P1Home(camera), camera)
          /\ ~ShorterThan(P1Home(camera), P1SafeDist * U)
          /\ P1Home(camera)[2] >= P1HomeFloor * U]_vars

\* ------------------------------------------------------------------------
\* App.js, first variant (lines 1-195): OrbitSystem driven by the clock
\* ------------------------------------------------------------------------

\* SOLAR_SYSTEM in order, then Earth's moon
V1Bodies == <<"Mercury", "Venus", "Earth", "Mars", "Jupiter", "Saturn",
              "Uranus", "Neptune", "Moon">>

V1Names == {V1Bodies[i] : i \in 1..Len(V1Bodies)}

\* distance (fixed-point); the Moon's is relative to Earth's group
V1Distance(b) ==
    CASE b = "Mercury" -> 2000
      [] b = "Venus" -> 3500
      [] b = "Earth" -> 5500
      [] b = "Mars" -> 7500
      [] b = "Jupiter" -> 11000
      [] b = "Saturn" -> 15000
      [] b = "Uranus" -> 19000
      [] b = "Neptune" -> 22000
      [] b = "Moon" -> 500

\* angular speed in 1e-7 rad per ms of scaled time: planet.speed, and
\* data.speed * 5 for the Moon
V1Speed(b) ==
    CASE b = "Mercury" -> 400
      [] b = "Venus" -> 150
      [] b = "Earth" -> 100
      [] b = "Mars" -> 80
      [] b = "Jupiter" -> 20
      [] b = "Saturn" -> 18
      [] b = "Uranus" -> 10
      [] b = "Neptune" -> 9
      [] b = "Moon" -> 2500

\* values the speed slider is moved to (tenths; the slider runs from 0 to 5
\* in steps of 0.1)
V1TimeScales == {0, 5, 20}

\* camera={{ position: [0, 80, 150] }}
V1CameraStart == Vec(0, 80 * U, 150 * U)

\* angle = startAngle + (elapsed * timeScale) * speed
V1Angle(b, start, clock, scale) == start + (clock * scale * V1Speed(b)) \div 10

\* OrbitSystem / Moon useFrame: the position is recomputed from the clock.
\* planetRef is never attached (PlanetMesh forwards no ref), so no mesh
\* spins.
V1Frame ==
    /\ app = "App.js (first)"
    /\ rendered = "scene"
    /\ frames < MaxFrames
    /\ elapsed' = elapsed + delta
    /\ \E a \in StartAngles :
           angle' = [b \in DOMAIN angle |-> V1Angle(b, a, elapsed', timeScale)]
    /\ position' = [b \in DOMAIN position |->
                       OrbitPosition(angle'[b], V1Distance(b))]
    /\ frames' = frames + 1
    /\ quiet' = quiet + 1
    /\ UNCHANGED <<app, hasError, rendered, selectedPlanet, controls, cleanedUp,
                   timeScale, focusedState, focusedPlanet, effectPending,
                   isTransitioning, isResetting, previousTarget, camera,
                   target, spin, mounted, delta, inputs, branch, released,
                   lastInput, seen, lag, lastPosition, arrived>>

\* the speed slider's onChange: setTimeScale(parseFloat(e.target.value))
V1SetTimeScale(v) ==
    /\ app = "App.js (first)"
    /\ rendered = "scene"
    /\ InputOpen
    /\ v # timeScale
    /\ timeScale' = v
    /\ inputs' = inputs + 1
    /\ lastInput' = "slider"
    /\ quiet' = 0
    /\ UNCHANGED <<app, hasError, rendered, selectedPlanet, controls, cleanedUp,
                   elapsed, focusedState, focusedPlanet, effectPending,
                   isTransitioning, isResetting, previousTarget, camera,
                   target, angle, position, spin, mounted, delta, frames,
                   branch, released, seen, lag, lastPosition, arrived>>

\* setTarget(name) from a click on the body or on its Overlay button: the
\* selection only changes how the orbit ring is drawn
V1Select(b) ==
    /\ app = "App.js (first)"
    /\ rendered = "scene"
    /\ InputOpen
    /\ focusedState' = [name |-> b, id |-> 0]
    /\ focusedPlanet' = focusedState'
    /\ inputs' = inputs + 1
    /\ lastInput' = "click"
    /\ quiet' = 0
    /\ UNCHANGED <<app, pageVars, effectPending, isTransitioning,
                   isResetting, previousTarget, camera, target, angle,
                   position, spin, mounted, delta, frames, branch, released,
                   seen, lag, lastPosition, arrived>>

\* useTexture throws: ErrorBoundary.getDerivedStateFromError sets hasError
\* and render() shows the "Texture Error" notice instead of the Canvas
V1TextureFail ==
    /\ app = "App.js (first)"
    /\ rendered = "scene"
    /\ frames = 0
    /\ hasError' = TRUE
    /\ rendered' = "fallback"
    /\ UNCHANGED <<app, selectedPlanet, controls, cleanedUp, timeScale, elapsed,
                   focusedState, focusedPlanet, effectPending,
                   isTransitioning, isResetting, previousTarget, camera,
                   target, angle, position, spin, mounted, delta, frames,
                   inputs, branch, released, lastInput, quiet, seen, lag,
                   lastPosition, arrived>>

V1Init ==
    /\ app = "App.js (first)"
    /\ focusedState = None
    /\ focusedPlanet = None
    /\ effectPending = FALSE
    /\ isTransitioning = FALSE
    /\ isResetting = FALSE
    /\ previousTarget = Zero3
    /\ camera = V1CameraStart
    /\ target = Zero3
    /\ \E a \in StartAngles : angle = [b \in V1Names |-> a]
    /\ position = [b \in V1Names |-> Zero3]
    /\ spin = [b \in V1Names |-> 0]
    /\ mounted = [b \in V1Names |-> TRUE]
    /\ delta \in FrameDeltas
    /\ frames = 0
    /\ inputs = 0
    /\ branch = "none"
    /\ released = FALSE
    /\ lastInput = "none"
    /\ quiet = 0
    /\ seen = Zero3
    /\ lag = 0
    /\ lastPosition = [b \in V1Names |-> Zero3]
    /\ arrived = None
    /\ hasError = FALSE
    /\ rendered = "scene"
    /\ selectedPlanet = None
    /\ controls = TRUE
    /\ cleanedUp = FALSE
    /\ timeScale = 10
    /\ elapsed = 0

V1Next ==
    \/ V1Frame
    \/ \E v \in V1TimeScales : V1SetTimeScale(v)
    \/ \E b \in {"Sun", "Earth"} : V1Select(b)
    \/ V1TextureFail

SpecV1 == V1Init /\ [][V1Next]_vars

\* orbiting is stopped: the time scale is 0, or the planets are paused
Stopped ==
    \/ app = "App.js (first)" /\ timeScale = 0
    \/ app = "App.js" /\ isPaused

\* C22: no step makes the phase angle of any body decrease, and a frame
\* rendered while orbiting is stopped leaves every phase angle as it was.
C22_PhaseNeverDecreases ==
    [][/\ \A b \in DOMAIN angle : angle'[b] >= angle[b]
       /\ (FrameStep /\ Stopped) => angle' = angle]_vars

\* minDistance / maxDistance of the OrbitControls of the running variant
MinDistance == IF app = "part_001" THEN P1MinDistance ELSE V2MinDistance

MaxDistance == IF app = "part_001" THEN P1MaxDistance ELSE V2MaxDistance

\* the camera's offset from the look-at target
CameraOffset == VSub(camera, target)

\* the offset d is not shorter than lo and not longer than hi (the upper
\* bound is compared in units of 64 to stay within 32 bits)
WithinRange(d, lo, hi) ==
    /\ ~ShorterThan(d, lo)
    /\ SumSq(VScaleDiv(d, 1, 64)) <= Sq(hi \div 64 + 2)

ReclickStep ==
    /\ lastInput' = "click"
    /\ inputs' = inputs + 1
    /\ focusedPlanet # None
    /\ focusedState = focusedPlanet
    /\ focusedState'.name = focusedPlanet.name

\* C24: a click on the body that is being tracked leaves the Selection as it
\* is, value and identity, so that no effect runs and isTransitioning is not
\* set again.
C24_ReclickChangesNothing ==
    [][(ReclickStep /\ Tracking /\ ~effectPending)
       => /\ focusedState' = focusedState
          /\ UNCHANGED <<focusedPlanet, effectPending, isTransitioning>>]_vars

\* ------------------------------------------------------------------
\* the fly-in goal and the Sun (part_001 lines 526-530, 627-639, 259-262)

\* const size = 8 of Sun(): the radius of the Sun's sphere
SunRadius == P1Size("Sun")

\* the goal of a fly-in to body b whose world position is targetPos stays
\* on the body's side of the Sun's surface: stepping the standoff from
\* targetPos toward the origin ends before the sphere of the Sun
BeforeSun(b, targetPos) ==
    ~ShorterThan(targetPos, P1Standoff(b) + SunRadius + 1)

\* C25: in part_001, on every fly-in frame toward a selectable orbiting
\* body, the standoff is strictly less than the body's distance from the
\* origin minus the Sun's radius, so the goal lies on the sun-facing side
\* of the body without passing the Sun
C25_GoalBeforeSun ==
    [][(FrameStep /\ app = "part_001" /\ HandleSet /\ Selected # "Sun"
        /\ branch' = "flyin")
       => BeforeSun(Selected, seen')]_vars

\* ------------------------------------------------------------------
\* part_000 after unmount (lines 98-115, 125-130)

\* C26: in part_000, once the cleanup of the mount effect has run, the
\* animation loop has stopped: no further animate frame is executed and no
\* orbit or spin rotation of a planet or of the sun changes any more
C26_LoopStopsAfterCleanup ==
    [][(app = "part_000" /\ cleanedUp)
       => UNCHANGED <<frames, angle, spin>>]_vars

====
